---- MODULE Spec2Model ----
(***************************************************************************)
(* State-machine model of the Arch Linux installer wizard (src/main.rs):   *)
(* main() sets the terminal up, run_app() walks the 12 questions in an     *)
(* event loop (draw, read one event, apply it), saves arch_config.toml     *)
(* when the last question is confirmed, and main() restores the terminal.  *)
(* Strings are sequences of one-character strings.                         *)
(***************************************************************************)
EXTENDS Integers, Sequences, FiniteSets, TLC

\* Bound on the number of editing key events (character, Backspace, Up,
\* Down) fed to one session.
MaxEdits == 2

VARIABLES
    pc,               \* position of the process in main()/run_app()
    raw_mode,         \* terminal raw mode enabled (enable_raw_mode)
    alt_screen,       \* alternate screen + mouse capture entered
    run_result,       \* how run_app() ended: "none" while it has not
    current_question, \* run_app local
    selected_option,  \* run_app local
    input_value,      \* run_app local
    filter,           \* run_app local
    list_state,       \* run_app local: ListState.selected, -1 for None
    config,           \* the 12 answer fields of ArchConfig
    theme,            \* config.theme
    persist_calls,    \* number of times the save step (lines 521-522) ran
    file,             \* contents of arch_config.toml, <<>> while not written
    edits,            \* editing key events consumed so far
    committed,        \* history: the answer computed by each completed Enter
    last_enter        \* history: the locals the latest Enter computed it from

vars == <<pc, raw_mode, alt_screen, run_result, current_question,
          selected_option, input_value, filter, list_state, config, theme,
          persist_calls, file, edits, committed, last_enter>>

----------------------------------------------------------------------------
\* Characters and strings

UpperChars == <<"A","B","C","D","E","F","G","H","I","J","K","L","M",
                "N","O","P","Q","R","S","T","U","V","W","X","Y","Z">>
LowerChars == <<"a","b","c","d","e","f","g","h","i","j","k","l","m",
                "n","o","p","q","r","s","t","u","v","w","x","y","z">>

\* char::to_lowercase on the characters the model uses (ASCII)
LowerChar(c) ==
    IF \E i \in 1..Len(UpperChars) : UpperChars[i] = c
    THEN LowerChars[CHOOSE i \in 1..Len(UpperChars) : UpperChars[i] = c]
    ELSE c

\* str::to_lowercase
to_lowercase(s) == [i \in 1..Len(s) |-> LowerChar(s[i])]

\* str::contains: needle occurs in hay as a contiguous substring
contains(hay, needle) ==
    \E i \in 0..(Len(hay) - Len(needle)) :
        SubSeq(hay, i + 1, i + Len(needle)) = needle

\* String::pop: drop the last character, nothing on the empty string
pop(s) == IF Len(s) = 0 THEN s ELSE SubSeq(s, 1, Len(s) - 1)

\* push inserting the character at the front
C11_PushFront(s, c) == <<c>> \o s

\* String::push
push(s, c) == Append(s, c)

----------------------------------------------------------------------------
\* Themes

ThemeDefault ==
    [background |-> "Reset", foreground |-> "White", highlight |-> "Yellow",
     accent |-> "Green", text |-> "Gray"]

ThemeDark ==
    [background |-> "Black", foreground |-> "White", highlight |-> "Yellow",
     accent |-> "Blue", text |-> "Gray"]

ThemeLight ==
    [background |-> "White", foreground |-> "Black", highlight |-> "Red",
     accent |-> "Blue", text |-> "DarkGray"]

\* NextTheme with the Black arm falling back to the default theme
C7_NextThemeSkipsLight(t) ==
    IF t.background = "Reset" THEN ThemeDark
    ELSE ThemeDefault

\* the match on config.theme.background in the '*' arm
NextTheme(t) ==
    IF t.background = "Reset" THEN ThemeDark
    ELSE IF t.background = "Black" THEN ThemeLight
    ELSE ThemeDefault

----------------------------------------------------------------------------
\* Question catalog

FreeText == [kind |-> "FreeText", options |-> <<>>]
Boolean == [kind |-> "Boolean", options |-> <<>>]
MultipleChoice(opts) == [kind |-> "MultipleChoice", options |-> opts]

questions == <<
    FreeText,                                              \* Hostname
    FreeText,                                              \* Username
    FreeText,                                              \* Password
    MultipleChoice(<<                                      \* Timezone
        <<"U","T","C">>,
        <<"A","m","e","r","i","c","a","/","N","e","w","_","Y","o","r","k">>,
        <<"E","u","r","o","p","e","/","L","o","n","d","o","n">>,
        <<"A","s","i","a","/","T","o","k","y","o">>,
        <<"A","u","s","t","r","a","l","i","a","/","S","y","d","n","e","y">> >>),
    MultipleChoice(<<                                      \* Locale
        <<"e","n","_","U","S",".","U","T","F","-","8">>,
        <<"d","e","_","D","E",".","U","T","F","-","8">>,
        <<"f","r","_","F","R",".","U","T","F","-","8">>,
        <<"j","a","_","J","P",".","U","T","F","-","8">>,
        <<"z","h","_","C","N",".","U","T","F","-","8">> >>),
    MultipleChoice(<<                                      \* Keyboard Layout
        <<"u","s">>, <<"d","e">>, <<"f","r">>, <<"e","s">>, <<"j","p">> >>),
    MultipleChoice(<<                                      \* Format Type
        <<"b","t","r","f","s">>, <<"e","x","t","4">>, <<"x","f","s">> >>),
    MultipleChoice(<<                                      \* Package Manager
        <<"p","a","c","m","a","n">>, <<"y","a","y">>, <<"p","a","r","u">> >>),
    MultipleChoice(<<                                      \* Bootloader
        <<"g","r","u","b">>,
        <<"s","y","s","t","e","m","d","-","b","o","o","t">> >>),
    MultipleChoice(<<                                      \* Desktop Environment
        <<"g","n","o","m","e">>, <<"k","d","e">>, <<"x","f","c","e">>,
        <<"d","w","m">>, <<"w","a","y","l","a","n","d">> >>),
    MultipleChoice(<<                                      \* Reflector Country
        <<"U","S">>, <<"D","E">>, <<"F","R">>, <<"C","A">>, <<"J","P">> >>),
    Boolean                                                \* Enable SSH
>>

\* the match current_question { 0 => config.hostname, ... } of the Enter arm
FieldOf == <<"hostname", "username", "password", "timezone", "locale",
             "keyboard_layout", "format_type", "package_manager",
             "bootloader", "desktop_environment", "reflector_country",
             "enable_ssh">>

\* options.iter().filter(|o| o.to_lowercase().contains(&filter.to_lowercase()))
filtered_options(options, f) ==
    SelectSeq(options, LAMBDA o : contains(to_lowercase(o), to_lowercase(f)))

----------------------------------------------------------------------------
\* Input events

\* characters the keyboard can send besides '*' and '~'
Chars == {"g", "r", "U"}

\* KeyCode values delivered by event::read(): Char(c) is written c
CharKeys == Chars \cup {"*", "~"}
Keys == CharKeys \cup {"Enter", "Up", "Down", "Backspace", "Tab"}

\* the arms with KeyCode::Char(c) placed first, so that it takes '*' and '~'
C20_ArmCharFirst(key) ==
    IF key \in CharKeys THEN "char"
    ELSE IF key = "Enter" THEN "enter"
    ELSE IF key \in {"Up", "Down"} THEN "updown"
    ELSE IF key = "Backspace" THEN "backspace"
    ELSE "other"

\* the arm of `match key.code` that a key selects, in source order
Arm(key) ==
    IF key = "*" THEN "theme"
    ELSE IF key = "~" THEN "quit"
    ELSE IF key = "Enter" THEN "enter"
    ELSE IF key \in {"Up", "Down"} THEN "updown"
    ELSE IF key \in CharKeys THEN "char"
    ELSE IF key = "Backspace" THEN "backspace"
    ELSE "other"

----------------------------------------------------------------------------
\* Initial state: the process at the start of main()

EmptyConfig ==
    [hostname |-> <<>>, username |-> <<>>, password |-> <<>>,
     timezone |-> <<>>, locale |-> <<>>, keyboard_layout |-> <<>>,
     format_type |-> <<>>, package_manager |-> <<>>, bootloader |-> <<>>,
     desktop_environment |-> <<>>, reflector_country |-> <<>>,
     enable_ssh |-> FALSE]

Init ==
    /\ pc = "enable_raw_mode"
    /\ raw_mode = FALSE
    /\ alt_screen = FALSE
    /\ run_result = "none"
    /\ current_question = 0
    /\ selected_option = 0
    /\ input_value = <<>>
    /\ filter = <<>>
    /\ list_state = -1
    /\ config = EmptyConfig
    /\ theme = ThemeDefault
    /\ persist_calls = 0
    /\ file = <<>>
    /\ edits = 0
    /\ committed = <<>>
    /\ last_enter = [selected |-> 0, input |-> <<>>, filter |-> <<>>]

locals == <<current_question, selected_option, input_value, filter, list_state>>
session == <<current_question, selected_option, input_value, filter,
             list_state, config, theme>>
disk == <<persist_calls, file, committed, last_enter>>
term == <<raw_mode, alt_screen>>

\* run_app() returns or unwinds: its locals go out of scope
DropLocals ==
    /\ current_question' = 0
    /\ selected_option' = 0
    /\ input_value' = <<>>
    /\ filter' = <<>>
    /\ list_state' = -1

\* the process ends without reaching the restore code of main()
Abort(how) ==
    /\ pc' = "exit"
    /\ run_result' = how
    /\ DropLocals

----------------------------------------------------------------------------
\* main(): terminal setup

EnableRawMode ==
    /\ pc = "enable_raw_mode"
    /\ \/ /\ raw_mode' = TRUE
          /\ pc' = "enter_alt_screen"
          /\ UNCHANGED run_result
       \/ /\ pc' = "exit"
          /\ run_result' = "setup_error"
          /\ UNCHANGED raw_mode
    /\ UNCHANGED <<alt_screen, session, disk, edits>>

\* execute!(stdout, EnterAlternateScreen, EnableMouseCapture)? and
\* Terminal::new(backend)?
EnterAlternateScreen ==
    /\ pc = "enter_alt_screen"
    /\ \/ /\ alt_screen' = TRUE
          /\ pc' = "splash"
          /\ UNCHANGED run_result
       \/ /\ pc' = "exit"
          /\ run_result' = "setup_error"
          /\ UNCHANGED alt_screen
    /\ UNCHANGED <<raw_mode, session, disk, edits>>

----------------------------------------------------------------------------
\* run_app()

\* splash screen draw, 3 s sleep, catalog and locals initialised
Splash ==
    /\ pc = "splash"
    /\ \/ /\ pc' = "draw"
          /\ current_question' = 0
          /\ selected_option' = 0
          /\ input_value' = <<>>
          /\ filter' = <<>>
          /\ list_state' = -1
          /\ UNCHANGED run_result
       \/ Abort("io_error")
    /\ UNCHANGED <<term, config, theme, disk, edits>>

Kind == questions[current_question + 1].kind
Options == questions[current_question + 1].options

\* let items: Vec<ListItem>: the options the frame lists, each with its style;
\* the item whose position equals selected_option gets the highlighted style
items ==
    LET shown == IF Kind = "MultipleChoice"
                 THEN filtered_options(Options, filter)
                 ELSE IF Kind = "Boolean"
                 THEN << <<"Y","e","s">>, <<"N","o">> >>
                 ELSE <<>>
    IN [i \in 1..Len(shown) |->
          [text |-> shown[i], highlighted |-> (i - 1 = selected_option)]]

\* terminal.draw with list_state.select(..) run for every question type
C17_DrawSelectsAlways ==
    /\ pc = "draw"
    /\ \/ /\ pc' = "read"
          /\ list_state' = selected_option
          /\ UNCHANGED <<run_result, current_question, selected_option,
                         input_value, filter>>
       \/ Abort("io_error")
    /\ UNCHANGED <<term, config, theme, disk, edits>>

\* terminal.draw(|f| ...): the closure selects list_state for list questions
Draw ==
    /\ pc = "draw"
    /\ \/ /\ pc' = "read"
          /\ list_state' = IF Kind \in {"MultipleChoice", "Boolean"}
                           THEN selected_option ELSE list_state
          /\ UNCHANGED <<run_result, current_question, selected_option,
                         input_value, filter>>
       \/ Abort("io_error")
    /\ UNCHANGED <<term, config, theme, disk, edits>>

\* event::read()? returns an error
ReadFail ==
    /\ pc = "read"
    /\ Abort("io_error")
    /\ UNCHANGED <<term, config, theme, disk, edits>>

\* event::read() returns a mouse, resize, focus or paste event
NonKeyEvent ==
    /\ pc = "read"
    /\ pc' = "draw"
    /\ UNCHANGED <<term, run_result, session, disk, edits>>

\* KeyTheme with the '*' arm also resetting the selection
C8_KeyThemeResetsSelection ==
    /\ pc = "read"
    /\ \E key \in Keys :
        /\ Arm(key) = "theme"
        /\ theme' = NextTheme(theme)
    /\ selected_option' = 0
    /\ pc' = "draw"
    /\ UNCHANGED <<term, run_result, current_question, input_value, filter,
                   list_state, config, disk, edits>>

\* KeyCode::Char('*')
KeyTheme ==
    /\ pc = "read"
    /\ \E key \in Keys :
        /\ Arm(key) = "theme"
        /\ theme' = NextTheme(theme)
    /\ pc' = "draw"
    /\ UNCHANGED <<term, run_result, locals, config, disk, edits>>

\* KeyQuit with '~' breaking out of the loop instead of returning
C4_KeyQuitBreaks ==
    /\ pc = "read"
    /\ \E key \in Keys : Arm(key) = "quit"
    /\ pc' = "save"
    /\ UNCHANGED <<term, run_result, session, disk, edits>>

\* KeyCode::Char('~') => return Ok(())
KeyQuit ==
    /\ pc = "read"
    /\ \E key \in Keys : Arm(key) = "quit"
    /\ pc' = "restore"
    /\ run_result' = "quit"
    /\ DropLocals
    /\ UNCHANGED <<term, config, theme, disk, edits>>

TrueStr == <<"t","r","u","e">>
FalseStr == <<"f","a","l","s","e">>

\* filtered_options[selected_option] is out of bounds
IndexPanics(q, sel, f) ==
    /\ questions[q + 1].kind = "MultipleChoice"
    /\ sel >= Len(filtered_options(questions[q + 1].options, f))

\* selected_value with the MultipleChoice arm indexing the unfiltered options
C9_SelectedValueUnfiltered(q, sel, inp, f) ==
    IF questions[q + 1].kind = "MultipleChoice"
    THEN questions[q + 1].options[sel + 1]
    ELSE IF questions[q + 1].kind = "FreeText" THEN inp
    ELSE IF sel = 0 THEN TrueStr ELSE FalseStr

\* selected_value with the MultipleChoice arm returning the lowercased option
\* that the filter comparison uses
C21_SelectedValueLowercased(q, sel, inp, f) ==
    IF questions[q + 1].kind = "MultipleChoice"
    THEN to_lowercase(filtered_options(questions[q + 1].options, f)[sel + 1])
    ELSE IF questions[q + 1].kind = "FreeText" THEN inp
    ELSE IF sel = 0 THEN TrueStr ELSE FalseStr

\* let selected_value = match &questions[current_question].question_type
selected_value(q, sel, inp, f) ==
    IF questions[q + 1].kind = "MultipleChoice"
    THEN filtered_options(questions[q + 1].options, f)[sel + 1]
    ELSE IF questions[q + 1].kind = "FreeText" THEN inp
    ELSE IF sel = 0 THEN TrueStr ELSE FalseStr

\* StoreAnswer with arms 4 and 5 assigning each other's field
C5_StoreAnswerSwapped(cfg, q, v) ==
    IF q = 4 THEN [cfg EXCEPT !.keyboard_layout = v]
    ELSE IF q = 5 THEN [cfg EXCEPT !.locale = v]
    ELSE IF q \in 0..10 THEN [cfg EXCEPT ![FieldOf[q + 1]] = v]
    ELSE IF q = 11 THEN [cfg EXCEPT !.enable_ssh = (v = TrueStr)]
    ELSE cfg

\* StoreAnswer with arm 2 assigning username, as arm 1 does
C12_StoreAnswerDuplicateArm(cfg, q, v) ==
    IF q = 2 THEN [cfg EXCEPT !.username = v]
    ELSE IF q \in 0..10 THEN [cfg EXCEPT ![FieldOf[q + 1]] = v]
    ELSE IF q = 11 THEN [cfg EXCEPT !.enable_ssh = (v = TrueStr)]
    ELSE cfg

\* StoreAnswer with arm 11 comparing with "True"
C10_StoreAnswerWrongLiteral(cfg, q, v) ==
    IF q \in 0..10 THEN [cfg EXCEPT ![FieldOf[q + 1]] = v]
    ELSE IF q = 11 THEN [cfg EXCEPT !.enable_ssh = (v = <<"T","r","u","e">>)]
    ELSE cfg

\* match current_question { 0 => config.hostname = selected_value, ... }
StoreAnswer(cfg, q, v) ==
    IF q \in 0..10 THEN [cfg EXCEPT ![FieldOf[q + 1]] = v]
    ELSE IF q = 11 THEN [cfg EXCEPT !.enable_ssh = (v = TrueStr)]
    ELSE cfg

\* KeyEnter leaving the loop only when current_question > questions.len()
C13_KeyEnterLateBreak ==
    /\ pc = "read"
    /\ \E key \in Keys : Arm(key) = "enter"
    /\ IF IndexPanics(current_question, selected_option, filter)
       THEN /\ Abort("panic")
            /\ UNCHANGED <<config, committed, last_enter>>
       ELSE /\ config' = StoreAnswer(config, current_question,
                  selected_value(current_question, selected_option,
                                 input_value, filter))
            /\ committed' = Append(committed,
                  selected_value(current_question, selected_option,
                                 input_value, filter))
            /\ last_enter' = [selected |-> selected_option,
                              input |-> input_value, filter |-> filter]
            /\ current_question' = current_question + 1
            /\ selected_option' = 0
            /\ input_value' = <<>>
            /\ filter' = <<>>
            /\ pc' = IF current_question + 1 > Len(questions)
                     THEN "save" ELSE "draw"
            /\ UNCHANGED <<run_result, list_state>>
    /\ UNCHANGED <<term, theme, persist_calls, file, edits>>

\* KeyCode::Enter without filter.clear()
C22_KeyEnterKeepsFilter ==
    /\ pc = "read"
    /\ \E key \in Keys : Arm(key) = "enter"
    /\ IF IndexPanics(current_question, selected_option, filter)
       THEN /\ Abort("panic")
            /\ UNCHANGED <<config, committed, last_enter>>
       ELSE /\ config' = StoreAnswer(config, current_question,
                  selected_value(current_question, selected_option,
                                 input_value, filter))
            /\ committed' = Append(committed,
                  selected_value(current_question, selected_option,
                                 input_value, filter))
            /\ last_enter' = [selected |-> selected_option,
                              input |-> input_value, filter |-> filter]
            /\ current_question' = current_question + 1
            /\ selected_option' = 0
            /\ input_value' = <<>>
            /\ pc' = IF current_question + 1 >= Len(questions)
                     THEN "save" ELSE "draw"
            /\ UNCHANGED <<run_result, list_state, filter>>
    /\ UNCHANGED <<term, theme, persist_calls, file, edits>>

\* KeyCode::Enter
KeyEnter ==
    /\ pc = "read"
    /\ \E key \in Keys : Arm(key) = "enter"
    /\ IF IndexPanics(current_question, selected_option, filter)
       THEN /\ Abort("panic")
            /\ UNCHANGED <<config, committed, last_enter>>
       ELSE /\ config' = StoreAnswer(config, current_question,
                  selected_value(current_question, selected_option,
                                 input_value, filter))
            /\ committed' = Append(committed,
                  selected_value(current_question, selected_option,
                                 input_value, filter))
            /\ last_enter' = [selected |-> selected_option,
                              input |-> input_value, filter |-> filter]
            /\ current_question' = current_question + 1
            /\ selected_option' = 0
            /\ input_value' = <<>>
            /\ filter' = <<>>
            /\ pc' = IF current_question + 1 >= Len(questions)
                     THEN "save" ELSE "draw"
            /\ UNCHANGED <<run_result, list_state>>
    /\ UNCHANGED <<term, theme, persist_calls, file, edits>>

\* option_count with the `_` arm giving 2, as the Boolean arm does
C15_OptionCountAlwaysList(q) ==
    IF questions[q + 1].kind = "MultipleChoice"
    THEN Len(questions[q + 1].options)
    ELSE 2

\* let option_count = match &questions[current_question].question_type
option_count(q) ==
    IF questions[q + 1].kind = "MultipleChoice"
    THEN Len(questions[q + 1].options)
    ELSE IF questions[q + 1].kind = "Boolean" THEN 2
    ELSE 0

\* the Up/Down arm applied to selected_option
MoveSelection(key, sel, count) ==
    IF count > 0
    THEN IF key = "Up" /\ sel > 0 THEN sel - 1
         ELSE IF key = "Down" /\ sel < count - 1 THEN sel + 1
         ELSE sel
    ELSE sel

\* KeyCode::Up | KeyCode::Down
KeyUpDown ==
    /\ pc = "read"
    /\ edits < MaxEdits
    /\ \E key \in Keys :
        /\ Arm(key) = "updown"
        /\ selected_option' =
               MoveSelection(key, selected_option, option_count(current_question))
    /\ edits' = edits + 1
    /\ pc' = "draw"
    /\ UNCHANGED <<term, run_result, current_question, input_value, filter,
                   list_state, config, theme, disk>>

\* KeyCode::Char(c) with the MultipleChoice arm keeping the selection
C16_KeyCharKeepsSelection ==
    /\ pc = "read"
    /\ edits < MaxEdits
    /\ \E key \in Keys :
        /\ Arm(key) = "char"
        /\ IF Kind = "FreeText"
           THEN /\ input_value' = push(input_value, key)
                /\ UNCHANGED <<filter, selected_option>>
           ELSE IF Kind = "MultipleChoice"
           THEN /\ filter' = push(filter, key)
                /\ UNCHANGED <<input_value, selected_option>>
           ELSE UNCHANGED <<input_value, filter, selected_option>>
    /\ edits' = edits + 1
    /\ pc' = "draw"
    /\ UNCHANGED <<term, run_result, current_question, list_state, config,
                   theme, disk>>

\* KeyCode::Char(c)
KeyChar ==
    /\ pc = "read"
    /\ edits < MaxEdits
    /\ \E key \in Keys :
        /\ Arm(key) = "char"
        /\ IF Kind = "FreeText"
           THEN /\ input_value' = push(input_value, key)
                /\ UNCHANGED <<filter, selected_option>>
           ELSE IF Kind = "MultipleChoice"
           THEN /\ filter' = push(filter, key)
                /\ selected_option' = 0
                /\ UNCHANGED input_value
           ELSE UNCHANGED <<input_value, filter, selected_option>>
    /\ edits' = edits + 1
    /\ pc' = "draw"
    /\ UNCHANGED <<term, run_result, current_question, list_state, config,
                   theme, disk>>

\* KeyCode::Backspace
KeyBackspace ==
    /\ pc = "read"
    /\ edits < MaxEdits
    /\ \E key \in Keys : Arm(key) = "backspace"
    /\ IF Kind = "FreeText"
       THEN /\ input_value' = pop(input_value)
            /\ UNCHANGED <<filter, selected_option>>
       ELSE IF Kind = "MultipleChoice"
       THEN /\ filter' = pop(filter)
            /\ selected_option' = 0
            /\ UNCHANGED input_value
       ELSE UNCHANGED <<input_value, filter, selected_option>>
    /\ edits' = edits + 1
    /\ pc' = "draw"
    /\ UNCHANGED <<term, run_result, current_question, list_state, config,
                   theme, disk>>

\* _ => {}
KeyOther ==
    /\ pc = "read"
    /\ \E key \in Keys : Arm(key) = "other"
    /\ pc' = "draw"
    /\ UNCHANGED <<term, run_result, session, disk, edits>>

\* toml::to_string_pretty(config): the 12 fields in declaration order,
\* theme skipped (#[serde(skip)])
to_string_pretty(cfg) ==
    [i \in 1..Len(FieldOf) |-> <<FieldOf[i], cfg[FieldOf[i]]>>]

\* serialize and std::fs::write("arch_config.toml", ...)?; Ok(())
Save ==
    /\ pc = "save"
    /\ persist_calls' = persist_calls + 1
    /\ \/ /\ file' = to_string_pretty(config)
          /\ pc' = "restore"
          /\ run_result' = "done"
          /\ DropLocals
       \/ /\ Abort("io_error")
          /\ UNCHANGED file
    /\ UNCHANGED <<term, config, theme, edits, committed, last_enter>>

----------------------------------------------------------------------------
\* main(): terminal restore, reached only when run_app() returned Ok

\* disable_raw_mode()?; execute!(.., LeaveAlternateScreen,
\* DisableMouseCapture)?; terminal.show_cursor()?; Ok(()), the three calls
\* taken to succeed
RestoreTerminal ==
    /\ pc = "restore"
    /\ raw_mode' = FALSE
    /\ alt_screen' = FALSE
    /\ pc' = "exit"
    /\ UNCHANGED <<run_result, session, disk, edits>>

----------------------------------------------------------------------------

Next ==
    \/ EnableRawMode
    \/ EnterAlternateScreen
    \/ Splash
    \/ Draw
    \/ ReadFail
    \/ NonKeyEvent
    \/ KeyTheme
    \/ KeyQuit
    \/ KeyEnter
    \/ KeyUpDown
    \/ KeyChar
    \/ KeyBackspace
    \/ KeyOther
    \/ Save
    \/ RestoreTerminal

Spec == Init /\ [][Next]_vars

----------------------------------------------------------------------------
\* Properties

InLoop == pc \in {"draw", "read"}

Grub == <<"g","r","u","b">>

\* the number of options the active list question shows
VisibleCount ==
    IF Kind = "MultipleChoice" THEN Len(filtered_options(Options, filter))
    ELSE 2

\* a step that completes an Enter: the only steps that advance the question
ConfirmStep == pc = "read" /\ current_question' = current_question + 1

\* C1: whenever the active question is MultipleChoice or Boolean and shows at
\* least one option, selected_option is an index into the visible options:
\* 0 <= selected_option < visible option count.
C1_SelectionWithinVisible ==
    (InLoop /\ Kind \in {"MultipleChoice", "Boolean"} /\ VisibleCount > 0)
        => (0 <= selected_option /\ selected_option < VisibleCount)

\* C2: Enter on a MultipleChoice question whose filter matches no option is a
\* no-op: the session keeps running and neither current_question nor any
\* answer field changes.
C2_ConfirmOnEmptyIsNoOp ==
    [][(pc = "read" /\ Kind = "MultipleChoice" /\ VisibleCount = 0 /\ KeyEnter)
          => (run_result' = "none" /\ pc' = "draw"
              /\ current_question' = current_question /\ config' = config)]_vars

\* C3: every Enter, whatever the locals hold, writes the answer, advances
\* current_question by exactly 1 and leaves input_value and filter empty and
\* selected_option 0, all in the one step.
C3_ConfirmCommitsAtomically ==
    [][KeyEnter
          => (/\ run_result' = "none"
              /\ current_question' = current_question + 1
              /\ Len(committed') = Len(committed) + 1
              /\ config'[FieldOf[current_question + 1]] =
                     IF current_question = 11
                     THEN committed'[Len(committed')] = TrueStr
                     ELSE committed'[Len(committed')]
              /\ \A i \in 1..Len(FieldOf) :
                     i # current_question + 1
                        => config'[FieldOf[i]] = config[FieldOf[i]]
              /\ input_value' = <<>>
              /\ filter' = <<>>
              /\ selected_option' = 0)]_vars

\* C4: '~' ends run_app() at once with the result "quit", from any question;
\* from then on the process is only restoring the terminal or has exited, and
\* the save step is never run: no call, no file.
C4_QuitNeverPersists ==
    /\ [][KeyQuit => (run_result' = "quit" /\ pc' = "restore")]_vars
    /\ [](run_result = "quit"
            => (pc \in {"restore", "exit"} /\ persist_calls = 0 /\ file = <<>>))
    /\ [][run_result = "quit"
            => (run_result' = "quit" /\ UNCHANGED <<persist_calls, file>>)]_vars

C4_QuitAfterAnswers ==
    /\ run_result = "quit"
    /\ pc = "exit"
    /\ Len(committed) >= 4
    /\ config.hostname # <<>>

\* C5: the save step runs at most once and only after the 12th Enter; the
\* record it is handed, and the file it writes, hold in field i the answer
\* computed by the i-th Enter.
C5_SavedRecordIsCommitted ==
    /\ persist_calls <= 1
    /\ Len(committed) < Len(questions) => (persist_calls = 0 /\ file = <<>>)
    /\ (pc = "save" \/ run_result = "done")
          => /\ Len(committed) = Len(questions)
             /\ \A i \in 1..11 : config[FieldOf[i]] = committed[i]
             /\ config.enable_ssh = (committed[12] = TrueStr)
    /\ pc = "save" => persist_calls = 0
    /\ run_result = "done"
          => /\ persist_calls = 1
             /\ Len(file) = Len(questions)
             /\ \A i \in 1..11 : file[i] = <<FieldOf[i], committed[i]>>
             /\ file[12] = <<"enable_ssh", committed[12] = TrueStr>>

C5_CompletedWithAnswers ==
    /\ run_result = "done"
    /\ pc = "exit"
    /\ config.hostname # <<>>
    /\ config.bootloader # Grub
    /\ file # <<>>

\* C6: on every way out of run_app() (completion, quit, failed draw or read,
\* panic in Enter, failed save) the process exits with raw mode disabled and
\* the alternate screen left.
C6_TerminalReleasedOnExit ==
    (pc = "exit" /\ run_result \in {"done", "quit", "io_error", "panic"})
        => (~raw_mode /\ ~alt_screen)

\* the cyclic order Default -> Dark -> Light -> Default
C7_Succ(t) ==
    CASE t = ThemeDefault -> ThemeDark
      [] t = ThemeDark -> ThemeLight
      [] t = ThemeLight -> ThemeDefault

\* C7: the theme is always one of the three palettes, '*' moves it to its
\* successor in the order Default -> Dark -> Light -> Default, and from every
\* reachable theme three '*' return to it while one or two do not.
C7_ThemeCycleHasPeriodThree ==
    /\ [](/\ theme \in {ThemeDefault, ThemeDark, ThemeLight}
          /\ NextTheme(theme) # theme
          /\ NextTheme(NextTheme(theme)) # theme
          /\ NextTheme(NextTheme(NextTheme(theme))) = theme)
    /\ [][(KeyTheme \/ theme' # theme) => theme' = C7_Succ(theme)]_vars

C7_ThemeCycledTwice == InLoop /\ theme = ThemeLight

\* C8: a step that changes the theme changes nothing else of the session:
\* current_question, input_value, filter, selected_option and the answer
\* fields are unchanged, on every question type.
C8_ThemeCycleFrame ==
    [][(KeyTheme \/ theme' # theme)
          => (/\ theme' # theme
              /\ UNCHANGED <<current_question, input_value, filter,
                             selected_option, list_state, config, run_result,
                             raw_mode, alt_screen, persist_calls, file>>)]_vars

C8_ThemeChangedOnBooleanNo ==
    /\ pc = "draw"
    /\ current_question = 11
    /\ selected_option = 1
    /\ theme = ThemeDark

\* option o contains f as a substring, letters compared without case
C9_Match(o, f) ==
    \E k \in 0..(Len(o) - Len(f)) :
        \A j \in 1..Len(f) : LowerChar(o[k + j]) = LowerChar(f[j])

\* C9: an Enter that completes on a MultipleChoice question writes to the
\* question's field the catalog option that matches the filter and has exactly
\* selected_option matching options before it in the catalog; with filter
\* "gr" on Bootloader the visible options are exactly [grub] and Enter sets
\* bootloader to "grub".
C9_ConfirmWritesVisibleOption ==
    /\ [][(ConfirmStep /\ Kind = "MultipleChoice")
            => \E i \in 1..Len(Options) :
                 /\ C9_Match(Options[i], filter)
                 /\ Cardinality({j \in 1..(i - 1) : C9_Match(Options[j], filter)})
                        = selected_option
                 /\ config'[FieldOf[current_question + 1]] = Options[i]]_vars
    /\ []((InLoop /\ current_question = 8 /\ filter = <<"g","r">>)
            => filtered_options(Options, filter) = <<Grub>>)
    /\ [][(ConfirmStep /\ current_question = 8 /\ filter = <<"g","r">>)
            => config'.bootloader = Grub]_vars

C9_GrubConfirmedByFilter ==
    /\ InLoop
    /\ current_question = 9
    /\ last_enter.filter = <<"g","r">>
    /\ config.bootloader = Grub

\* C10: on the Boolean question selected_option is 0 or 1, and an Enter there
\* sets enable_ssh to true exactly when selected_option is 0.
C10_BooleanAnswer ==
    /\ []((InLoop /\ Kind = "Boolean") => selected_option \in {0, 1})
    /\ [][(ConfirmStep /\ Kind = "Boolean")
            => config'.enable_ssh = (selected_option = 0)]_vars

C10_SshEnabledByYes ==
    /\ pc = "save"
    /\ last_enter.selected = 0
    /\ config.enable_ssh = TRUE

\* s without its last character, s itself when empty
C11_ButLast(s) == [i \in 1..(IF Len(s) = 0 THEN 0 ELSE Len(s) - 1) |-> s[i]]

\* C11: on a FreeText question a character key appends that character to
\* input_value, Backspace removes its last character (nothing when empty), no
\* other key that keeps the question active touches it, it is empty when the
\* question becomes active, and Enter always completes and writes exactly
\* input_value, empty or not, to the question's field.
C11_FreeTextAnswerIsBuffer ==
    /\ [][(KeyChar /\ Kind = "FreeText")
            => \E c \in Chars : input_value' = input_value \o <<c>>]_vars
    /\ [][(KeyBackspace /\ Kind = "FreeText")
            => input_value' = C11_ButLast(input_value)]_vars
    /\ [][(pc = "read" /\ pc' = "draw" /\ Kind = "FreeText"
           /\ current_question' = current_question
           /\ ~KeyChar /\ ~KeyBackspace)
            => input_value' = input_value]_vars
    /\ [][(pc' = "draw" /\ (pc = "splash" \/ ConfirmStep))
            => input_value' = <<>>]_vars
    /\ [][(KeyEnter /\ Kind = "FreeText")
            => (/\ ConfirmStep
                /\ config'[FieldOf[current_question + 1]] = input_value)]_vars

C11_HostnameTypedAndConfirmed ==
    /\ InLoop
    /\ current_question = 1
    /\ last_enter.input = <<"g","r">>
    /\ config.hostname = <<"g","r">>

\* the value field i holds once the i-th Enter has committed it
C12_Committed(i) == IF i = 12 THEN committed[i] = TrueStr ELSE committed[i]

\* C12: a field changes only in the Enter step of its own question (field i
\* while current_question = i - 1), which changes no other field; a field whose
\* question is not yet confirmed still has its initial value, and a field whose
\* question is confirmed holds the value committed then, for good.
C12_FieldsWrittenOnce ==
    /\ [][\A i \in 1..Len(FieldOf) :
            config'[FieldOf[i]] # config[FieldOf[i]]
                => (KeyEnter /\ ConfirmStep /\ current_question = i - 1)]_vars
    /\ [][SubSeq(committed', 1, Len(committed)) = committed]_vars
    /\ [](\A i \in 1..Len(FieldOf) :
            config[FieldOf[i]] = IF i <= Len(committed) THEN C12_Committed(i)
                                 ELSE EmptyConfig[FieldOf[i]])

C12_LaterEnterKeepsEarlierField ==
    /\ InLoop
    /\ current_question = 5
    /\ config.hostname = <<"g">>
    /\ config.locale # <<>>
    /\ config.locale # questions[5].options[1]

\* C13: current_question stays within 0..12; the loop draws and applies events
\* only while it is below 12 and is left for the save step as soon as it is
\* 12; while run_app() runs it changes only in an Enter step, by exactly 1.
C13_IndexBoundedAndMonotone ==
    /\ [](/\ current_question \in 0..Len(questions)
          /\ InLoop => current_question < Len(questions)
          /\ current_question = Len(questions) => pc = "save"
          /\ pc = "save" => current_question = Len(questions))
    /\ [][(current_question' # current_question /\ pc' \in {"draw", "read", "save"})
            => (KeyEnter /\ current_question' = current_question + 1)]_vars
    /\ [][(ConfirmStep /\ current_question' = Len(questions)) => pc' = "save"]_vars

C13_LastQuestionConfirmed == pc = "save" /\ current_question = Len(questions)

\* C15: an event that is no key, a key with no binding, a character or
\* Backspace on the Boolean question and Up or Down on a FreeText question
\* change nothing of the session and the loop goes on to the next draw.
C15_UnboundInputIgnored ==
    [][(\/ NonKeyEvent
        \/ KeyOther
        \/ (KeyChar \/ KeyBackspace) /\ Kind = "Boolean"
        \/ KeyUpDown /\ Kind = "FreeText")
          => (/\ pc' = "draw"
              /\ run_result' = "none"
              /\ UNCHANGED <<current_question, input_value, filter,
                             selected_option, list_state, theme, config,
                             raw_mode, alt_screen, persist_calls, file>>)]_vars

C15_ArrowOnFreeTextIgnored ==
    /\ pc = "draw"
    /\ current_question = 0
    /\ edits = 1
    /\ input_value = <<>>
    /\ selected_option = 0

\* C16: on a MultipleChoice question a typed character is appended to the
\* filter and Backspace removes the filter's last character (an empty filter
\* stays empty); both set selected_option to 0 and leave the question index,
\* the FreeText buffer, the theme and the record unchanged.
C16_FilterEditResetsSelection ==
    /\ [][(KeyChar /\ Kind = "MultipleChoice")
            => (/\ \E c \in Chars : filter' = filter \o <<c>>
                /\ selected_option' = 0
                /\ UNCHANGED <<current_question, input_value, theme,
                               config>>)]_vars
    /\ [][(KeyBackspace /\ Kind = "MultipleChoice")
            => (/\ filter' = C11_ButLast(filter)
                /\ selected_option' = 0
                /\ UNCHANGED <<current_question, input_value, theme,
                               config>>)]_vars

C16_SelectionResetByTyping ==
    /\ pc = "draw"
    /\ Kind = "MultipleChoice"
    /\ filter # <<>>
    /\ list_state = 1
    /\ selected_option = 0

C18_ExactlyOneHighlighted ==
    (pc = "read" /\ Kind \in {"MultipleChoice", "Boolean"} /\ Len(items) > 0)
        => (/\ Cardinality({i \in 1..Len(items) : items[i].highlighted}) = 1
            /\ selected_option < Len(items)
            /\ items[selected_option + 1].highlighted)

\* C19, over finite runs: a run that has ended without the quit key and
\* without an I/O error has written the file, and the file is written only
\* once twelve Enter keys have been completed.
C19_ConfirmsReachDone ==
    /\ (pc = "exit" /\ run_result \notin {"quit", "io_error", "setup_error"})
          => persist_calls = 1
    /\ persist_calls = 1 => Len(committed) = Len(questions)

C20_Plain(s) == \A i \in 1..Len(s) : s[i] \notin {"*", "~"}

\* C20: '*' and '~' are taken by the theme and quit arms on every question
\* type, so neither the FreeText buffer nor the filter nor any answer field
\* ever holds one of them.
C20_ReservedCharsNeverStored ==
    /\ C20_Plain(input_value)
    /\ C20_Plain(filter)
    /\ \A i \in 1..Len(FieldOf) :
          FieldOf[i] # "enable_ssh" => C20_Plain(config[FieldOf[i]])

C20_ThemeKeyWhileTyping ==
    /\ InLoop
    /\ Kind = "FreeText"
    /\ input_value # <<>>
    /\ theme = ThemeDark

\* C21: every MultipleChoice field that an Enter has written holds, character
\* for character, one of the options of its own question, whatever filter
\* edits and cursor moves preceded the Enter.
C21_ChoiceFieldIsCatalogOption ==
    \A i \in 1..Len(committed) :
        questions[i].kind = "MultipleChoice"
            => \E j \in 1..Len(questions[i].options) :
                   config[FieldOf[i]] = questions[i].options[j]

C21_TimezoneChosenAfterFilterAndMove ==
    /\ InLoop
    /\ current_question = 4
    /\ last_enter.filter = <<"r">>
    /\ last_enter.selected = 1
    /\ config.timezone = questions[4].options[3]

\* C22: the filter is non-empty only while a MultipleChoice question is
\* active, the FreeText buffer is non-empty only while a FreeText question is
\* active and selected_option is non-zero only while a MultipleChoice or
\* Boolean question is active; so the filter shown in the footer of a
\* FreeText or Boolean question is empty.
C22_TransientStateMatchesKind ==
    /\ filter # <<>> => (InLoop /\ Kind = "MultipleChoice")
    /\ input_value # <<>> => (InLoop /\ Kind = "FreeText")
    /\ selected_option # 0 => (InLoop /\ Kind \in {"MultipleChoice", "Boolean"})

C22_FilterClearedBeforeBoolean ==
    /\ InLoop
    /\ Kind = "Boolean"
    /\ last_enter.filter # <<>>
    /\ filter = <<>>
    /\ selected_option = 1

====
